---- MODULE Spec2Model ----
(***************************************************************************)
(* A model of hw5.py: class QuestionnaireAnalysis.                         *)
(*                                                                         *)
(* Representation of the Python values:                                    *)
(*  - a float is a pair <<n, d>>: the rational n/d in lowest terms with    *)
(*    d >= 1, or NaN == <<0, 0>>;                                          *)
(*  - a Python value in the email column is [isstr, chars]: a str is a     *)
(*    sequence of one-character strings, anything else has isstr = FALSE;  *)
(*  - a DataFrame is [columns, index, rows]: the column labels, the row    *)
(*    labels and the rows, each row a function from column label to value; *)
(*  - a nullable UInt8 cell is [data, mask] (pandas' masked array):        *)
(*    mask = TRUE is pd.NA.                                                *)
(* Python positions are 0-based, TLA+ sequences are 1-based: position p    *)
(* of an array is element p + 1 of the sequence that models it.            *)
(***************************************************************************)
EXTENDS Integers, Sequences, FiniteSets, TLC

VARIABLES
    file,        \* the table held by the JSON file at data_fname
    arg,         \* the value a caller passes to is_valid_email
    pc,          \* "start": no analyzer yet; "failed": __init__ raised; "ready": constructed
    data_fname,  \* self.data_fname
    data,        \* self.data
    reads,       \* number of times the file has been read (pd.read_json)
    op,          \* the last method called
    in,          \* its arguments
    err,         \* the exception it raised, "none" when it returned
    ret          \* the value it returned

vars == <<file, arg, pc, data_fname, data, reads, op, in, err, ret>>

\* ------------------------------------------------------------------ bounds

MaxRows == 2
MaxLen == 5
MaxThreshold == 5
MaxReads == 1

\* ------------------------------------------------------------------ floats

NaN == <<0, 0>>
Num(v) == <<v, 1>>
isna(x) == x[2] = 0
notna(x) == ~isna(x)

RECURSIVE GCD(_, _)
GCD(a, b) == IF b = 0 THEN a ELSE GCD(b, a % b)

Abs(n) == IF n < 0 THEN -n ELSE n

\* n/d in lowest terms, d >= 1
Ratio(n, d) == LET g == GCD(Abs(n), d) IN <<n \div g, d \div g>>

\* x > y on floats; a comparison with NaN is False
Gt(x, y) == notna(x) /\ notna(y) /\ x[1] * y[2] > y[1] * x[2]
Lt(x, y) == Gt(y, x)
Le(x, y) == notna(x) /\ notna(y) /\ x[1] * y[2] <= y[1] * x[2]

RECURSIVE nansum(_)
nansum(s) ==
    IF s = <<>> THEN Num(0)
    ELSE LET t == nansum(Tail(s))
             x == Head(s)
         IN IF isna(x) THEN t ELSE Ratio(x[1] * t[2] + t[1] * x[2], x[2] * t[2])

count(s) == Len(SelectSeq(s, notna))

\* Series.mean(skipna=True): the mean of the non-missing values, NaN when there is none
mean(s) ==
    IF count(s) = 0 THEN NaN
    ELSE LET t == nansum(s) IN Ratio(t[1], t[2] * count(s))

\* np.floor
floor(x) == IF isna(x) THEN NaN ELSE Num(x[1] \div x[2])

\* ------------------------------------------------------------------ tables

None == [None |-> TRUE]

questions_columns == <<"q1", "q2", "q3", "q4", "q5">>

Columns == <<"age", "email", "gender", "q1", "q2", "q3", "q4", "q5">>

Str(s) == [isstr |-> TRUE, chars |-> s]
NotStr == [isstr |-> FALSE, chars |-> <<>>]

Row(age, email, gender, q) ==
    [age |-> age, email |-> email, gender |-> gender,
     q1 |-> q[1], q2 |-> q[2], q3 |-> q[3], q4 |-> q[4], q5 |-> q[5]]

RangeIndex(n) == [i \in 1..n |-> i - 1]

\* pd.read_json of an array of objects: the rows in file order under a RangeIndex
read_json(rows) == [columns |-> Columns, index |-> RangeIndex(Len(rows)), rows |-> rows]

\* df[cols] of one row, as a sequence
Answers(row) == [i \in 1..Len(questions_columns) |-> row[questions_columns[i]]]

\* df[mask]: the rows (and their labels) where the boolean mask is True
RECURSIVE Keep(_, _)
Keep(s, mask) ==
    IF s = <<>> THEN <<>>
    ELSE (IF Head(mask) THEN <<Head(s)>> ELSE <<>>) \o Keep(Tail(s), Tail(mask))

getitem_mask(df, mask) ==
    [df EXCEPT !.index = Keep(df.index, mask), !.rows = Keep(df.rows, mask)]

\* np.where(mask)[0]: the positions where the mask is True, ascending
where(mask) ==
    LET pos == [i \in 1..Len(mask) |-> i - 1]
    IN Keep(pos, mask)

\* ------------------------------------------------------------------ __init__ and read_data

NoFname == [kind |-> "unset", exists |-> FALSE]
NoArgs == [given |-> FALSE]
NoRet == [none |-> TRUE]

ArgTypes == {"str", "Path", "other"}

init_raises_unchecked(type, exists) ==
    IF type # "str" /\ type # "Path" THEN "TypeError" ELSE "none"

\* __init__(data_fname): the exception it raises, "none" when it returns
init_raises(type, exists) ==
    IF type # "str" /\ type # "Path" THEN "TypeError"
    ELSE IF ~exists THEN "ValueError"
    ELSE "none"

Construct ==
    /\ pc = "start"
    /\ \E type \in ArgTypes, exists \in BOOLEAN :
         LET e == init_raises(type, exists)
         IN /\ err' = e
            /\ in' = [given |-> TRUE, type |-> type, exists |-> exists]
            /\ IF e = "none"
                 THEN /\ pc' = "ready"
                      /\ data_fname' = [kind |-> "Path", exists |-> exists]
                      /\ data' = None
                 ELSE /\ pc' = "failed"
                      /\ UNCHANGED <<data_fname, data>>
    /\ op' = "__init__"
    /\ ret' = NoRet
    /\ UNCHANGED <<file, arg, reads>>

ReadData ==
    /\ pc = "ready"
    /\ reads < MaxReads
    /\ data' = read_json(file)
    /\ reads' = reads + 1
    /\ op' = "read_data"
    /\ in' = NoArgs
    /\ err' = "none"
    /\ ret' = NoRet
    /\ UNCHANGED <<file, arg, pc, data_fname>>

\* ------------------------------------------------------------------ is_valid_email

str_count(s, c) == Cardinality({i \in 1..Len(s) : s[i] = c})
startswith(s, c) == Len(s) > 0 /\ s[1] = c
endswith(s, c) == Len(s) > 0 /\ s[Len(s)] = c
contains(s, c) == \E i \in 1..Len(s) : s[i] = c
\* str.index: the first position of c (1-based here)
str_index(s, c) == CHOOSE i \in 1..Len(s) : s[i] = c /\ \A j \in 1..(i - 1) : s[j] # c

is_valid_email_any_at(email) ==
    IF ~email.isstr THEN FALSE
    ELSE LET s == email.chars IN
      IF str_count(s, "@") < 1 \/ startswith(s, "@") \/ endswith(s, "@") THEN FALSE
      ELSE IF ~contains(s, ".") \/ startswith(s, ".") \/ endswith(s, ".") THEN FALSE
      ELSE LET at_index == str_index(s, "@")
           IN IF s[at_index + 1] = "." THEN FALSE ELSE TRUE

is_valid_email(email) ==
    IF ~email.isstr THEN FALSE
    ELSE LET s == email.chars IN
      IF str_count(s, "@") # 1 \/ startswith(s, "@") \/ endswith(s, "@") THEN FALSE
      ELSE IF ~contains(s, ".") \/ startswith(s, ".") \/ endswith(s, ".") THEN FALSE
      ELSE LET at_index == str_index(s, "@")
           IN IF s[at_index + 1] = "." THEN FALSE ELSE TRUE

\* a static method: callable at any time, with or without an analyzer
IsValidEmail ==
    /\ op' = "is_valid_email"
    /\ in' = [given |-> TRUE, email |-> arg]
    /\ err' = "none"
    /\ ret' = is_valid_email(arg)
    /\ UNCHANGED <<file, arg, pc, data_fname, data, reads>>

\* ------------------------------------------------------------------ show_age_distrib

\* np.arange(start, stop, step)
arange(start, stop, step) ==
    [i \in 1..((stop - start + step - 1) \div step) |-> start + (i - 1) * step]

bins_short == arange(0, 100, 10)

bins == arange(0, 101, 10)

\* np.histogram(a, bins=edges) with explicit edges: a is sorted (NaN last) and
\* searched for the edges, from the left for all but the last edge, from the
\* right for the last; the counts are the differences.
searchsorted_left(a, e) == Cardinality({i \in 1..Len(a) : Lt(a[i], Num(e))})
searchsorted_right(a, e) == Cardinality({i \in 1..Len(a) : Le(a[i], Num(e))})

histogram(a, edges) ==
    LET cum_n == [i \in 1..Len(edges) |->
                    IF i < Len(edges) THEN searchsorted_left(a, edges[i])
                    ELSE searchsorted_right(a, edges[i])]
    IN [hist |-> [i \in 1..(Len(edges) - 1) |-> cum_n[i + 1] - cum_n[i]],
        edges |-> edges]

column(df, c) == [i \in 1..Len(df.rows) |-> df.rows[i][c]]

ShowAgeDistrib ==
    /\ pc = "ready"
    /\ op' = "show_age_distrib"
    /\ in' = NoArgs
    /\ IF data = None
         THEN err' = "TypeError" /\ ret' = NoRet
         ELSE err' = "none" /\ ret' = histogram(column(data, "age"), bins)
    /\ UNCHANGED <<file, arg, pc, data_fname, data, reads>>

\* ------------------------------------------------------------------ remove_rows_without_mail

keep_index(df) == df

\* DataFrame.reset_index(drop=True)
reset_index(df) == [df EXCEPT !.index = RangeIndex(Len(df.rows))]

remove_rows_without_mail(df) ==
    LET valid_emails == [i \in 1..Len(df.rows) |-> is_valid_email(df.rows[i].email)]
    IN reset_index(getitem_mask(df, valid_emails))

RemoveRowsWithoutMail ==
    /\ pc = "ready"
    /\ op' = "remove_rows_without_mail"
    /\ in' = NoArgs
    /\ IF data = None
         THEN err' = "TypeError" /\ ret' = NoRet
         ELSE err' = "none" /\ ret' = remove_rows_without_mail(data)
    /\ UNCHANGED <<file, arg, pc, data_fname, data, reads>>

\* ------------------------------------------------------------------ copies

\* A method works on the object its local name df is bound to. The stored table
\* is the object "self.data"; DataFrame.copy() makes a new object.
alias(obj) == obj

copy(obj) == "df"

\* The two objects after the method has written `written` to the object df names
Heap(stored, df, written) ==
    [o \in {"self.data", df} |-> IF o = df THEN written ELSE stored]

\* ------------------------------------------------------------------ fill_na_with_mean

all_axis1(m) == \A i \in 1..Len(m) : m[i]

\* DataFrame.any(axis=1), of one row
any_axis1(m) == \E i \in 1..Len(m) : m[i]

isna_row(row) == [i \in 1..Len(questions_columns) |-> isna(Answers(row)[i])]

\* df.loc[idx]: the position of the row labelled idx
HasLabel(df, idx) == \E p \in 1..Len(df.index) : df.index[p] = idx
loc(df, idx) == CHOOSE p \in 1..Len(df.index) : df.index[p] = idx

mean_zero_filled(s) ==
    IF s = <<>> THEN NaN
    ELSE LET t == nansum(s) IN Ratio(t[1], t[2] * Len(s))

row_mean(s) == mean(s)

\* Series.fillna(value)
fillna(s, value) == [i \in 1..Len(s) |-> IF isna(s[i]) THEN value ELSE s[i]]

\* df.loc[idx, questions_columns] = values
setitem_loc(df, idx, values) ==
    LET p == loc(df, idx)
        new == [c \in DOMAIN df.rows[p] |->
                  IF \E i \in 1..Len(questions_columns) : questions_columns[i] = c
                    THEN values[CHOOSE i \in 1..Len(questions_columns) : questions_columns[i] = c]
                    ELSE df.rows[p][c]]
    IN [df EXCEPT !.rows[p] = new]

RECURSIVE fill_loop(_, _)
fill_loop(df, idxs) ==
    IF idxs = <<>> THEN df
    ELSE LET idx == Head(idxs)
             row == Answers(df.rows[loc(df, idx)])
             mean_value == row_mean(row)
         IN fill_loop(setitem_loc(df, idx, fillna(row, mean_value)), Tail(idxs))

rows_with_na(df) == [i \in 1..Len(df.rows) |-> any_axis1(isna_row(df.rows[i]))]

FillNaWithMean ==
    /\ pc = "ready"
    /\ op' = "fill_na_with_mean"
    /\ in' = NoArgs
    /\ IF data = None
         THEN err' = "AttributeError" /\ ret' = NoRet /\ data' = data
         ELSE LET df == copy("self.data")
                  rows_indices == where(rows_with_na(data))
              IN IF \E i \in 1..Len(rows_indices) : ~HasLabel(data, rows_indices[i])
                   THEN err' = "KeyError" /\ ret' = NoRet /\ data' = data
                   ELSE LET heap == Heap(data, df, fill_loop(data, rows_indices))
                        IN /\ err' = "none"
                           /\ ret' = [df |-> heap[df], rows_indices |-> rows_indices]
                           /\ data' = heap["self.data"]
    /\ UNCHANGED <<file, arg, pc, data_fname, reads>>

\* ------------------------------------------------------------------ score_subjects

maximal_nans_per_sub_default == 1

Thresholds == 0..MaxThreshold

\* a nullable UInt8 cell
pd_NA == [data |-> 0, mask |-> TRUE]
UInt8(v) == [data |-> v, mask |-> FALSE]

\* Series.astype("UInt8") of a float: NaN becomes pd.NA; a value that is not a
\* whole number of 0..255 cannot be cast safely and raises TypeError
astype_raises_on_nan(x) == isna(x) \/ x[2] # 1 \/ x[1] < 0 \/ x[1] > 255

astype_raises(x) == notna(x) /\ (x[2] # 1 \/ x[1] < 0 \/ x[1] > 255)

astype_UInt8(x) == IF isna(x) THEN pd_NA ELSE UInt8(x[1])

nans_count(row) == Cardinality({i \in 1..Len(questions_columns) : isna_row(row)[i]})

mean_scores(row) == mean(Answers(row))

eligible_strict(row, maximal_nans_per_sub) == nans_count(row) < maximal_nans_per_sub

eligible_mask(row, maximal_nans_per_sub) == nans_count(row) <= maximal_nans_per_sub

\* the Series score after score.loc[eligible_mask] = ...
score(df, maximal_nans_per_sub) ==
    [i \in 1..Len(df.rows) |->
       IF eligible_mask(df.rows[i], maximal_nans_per_sub)
         THEN astype_UInt8(floor(mean_scores(df.rows[i])))
         ELSE pd_NA]

\* df[c] = values: a new column c
setitem_column(df, c, values) ==
    [df EXCEPT !.columns = Append(df.columns, c),
               !.rows = [i \in 1..Len(df.rows) |-> (c :> values[i]) @@ df.rows[i]]]

ScoreSubjects ==
    /\ pc = "ready"
    /\ op' = "score_subjects"
    /\ \E a \in {NoArgs} \cup {[given |-> TRUE, maximal_nans_per_sub |-> t] : t \in Thresholds} :
         LET maximal_nans_per_sub ==
               IF a.given THEN a.maximal_nans_per_sub ELSE maximal_nans_per_sub_default
         IN /\ in' = a
            /\ IF data = None
                 THEN err' = "AttributeError" /\ ret' = NoRet /\ data' = data
                 ELSE IF \E i \in 1..Len(data.rows) :
                           /\ eligible_mask(data.rows[i], maximal_nans_per_sub)
                           /\ astype_raises(floor(mean_scores(data.rows[i])))
                   THEN err' = "TypeError" /\ ret' = NoRet /\ data' = data
                   ELSE LET df == copy("self.data")
                            heap == Heap(data, df,
                                         setitem_column(data, "score",
                                                        score(data, maximal_nans_per_sub)))
                        IN /\ err' = "none"
                           /\ ret' = heap[df]
                           /\ data' = heap["self.data"]
    /\ UNCHANGED <<file, arg, pc, data_fname, reads>>

\* ------------------------------------------------------------------ correlate_gender_age

\* the gender labels, in ascending (lexicographic) order
Genders == <<"Female", "Male">>

above_40_inclusive(age) == Le(Num(40), age)

\* df["age"] > 40
above_40(age) == Gt(age, Num(40))

\* df["age"].notna()
age_notna(age) == notna(age)

\* the group keys groupby can produce, in its sorted order:
\* gender ascending, then False before True
AllKeys ==
    [k \in 1..(2 * Len(Genders)) |-> [gender |-> Genders[(k + 1) \div 2], age |-> (k % 2 = 0)]]

\* the rows of one group
group_rows(df, key) ==
    SelectSeq(df.rows, LAMBDA r : r.gender = key.gender /\ above_40(r.age) = key.age)

\* [questions_columns].mean() of one group: per column, the mean of its non-missing values
group_mean(rows) ==
    [c \in {questions_columns[i] : i \in 1..Len(questions_columns)} |->
       mean([i \in 1..Len(rows) |-> rows[i][c]])]

correlate_gender_age(data0) ==
    LET df == getitem_mask(data0, [i \in 1..Len(data0.rows) |-> age_notna(data0.rows[i].age)])
        present == [k \in 1..Len(AllKeys) |-> group_rows(df, AllKeys[k]) # <<>>]
        means == [k \in 1..Len(AllKeys) |-> group_mean(group_rows(df, AllKeys[k]))]
    IN [columns |-> questions_columns,
        index |-> Keep(AllKeys, present),
        rows |-> Keep(means, present)]

\* df = df[df['age'].notna()] rebinds df to a new object before the first write
\* (df["above_40"] = ...), so no write reaches the stored table
CorrelateGenderAge ==
    /\ pc = "ready"
    /\ op' = "correlate_gender_age"
    /\ in' = NoArgs
    /\ IF data = None
         THEN err' = "AttributeError" /\ ret' = NoRet
         ELSE err' = "none" /\ ret' = correlate_gender_age(data)
    /\ UNCHANGED <<file, arg, pc, data_fname, data, reads>>

\* ------------------------------------------------------------------ inputs

Alphabet == {"a", "@", "."}

\* every str of at most MaxLen characters
Strings == UNION {[1..n -> Alphabet] : n \in 0..MaxLen}

\* every table of 1..MaxRows rows drawn from Rows
Tables(Rows) == UNION {[1..n -> Rows] : n \in 1..MaxRows}

GoodMail == Str(<<"a", "@", "a", ".", "a">>)
FullAnswers == <<Num(80), Num(90), Num(75), Num(70), Num(60)>>

AgeValues == {NaN, Num(0), Num(9), Num(10), Num(99), Num(100), Num(101)}
AgeRows == {Row(a, GoodMail, "Female", FullAnswers) : a \in AgeValues}

MailValues ==
    {NotStr, GoodMail,
     Str(<<"a", ".", "a", "@", "a">>),
     Str(<<"a", "a", ".", "a">>),
     Str(<<"a", "@", ".", "a">>),
     Str(<<"@", "a", ".", "a">>),
     Str(<<"a", "@", "a", "@", "a", ".", "a">>)}
MailRows == {Row(Num(30), e, "Male", FullAnswers) : e \in MailValues}

AnswerValues ==
    {FullAnswers,
     <<Num(80), Num(90), NaN, Num(70), Num(60)>>,
     <<NaN, NaN, Num(70), Num(80), Num(90)>>,
     <<NaN, NaN, NaN, NaN, NaN>>,
     <<NaN, NaN, NaN, NaN, Num(7)>>,
     <<Num(1), Num(2), NaN, Num(2), Num(2)>>,
     <<Num(0), Num(0), Num(0), Num(0), NaN>>,
     <<Num(100), Num(100), Num(100), Num(100), Num(100)>>}
AnswerRows == {Row(Num(30), GoodMail, "Female", q) : q \in AnswerValues}

CorrRows ==
    {Row(a, GoodMail, g, q) :
       a \in {NaN, Num(40), Num(41)},
       g \in {"Female", "Male"},
       q \in {FullAnswers, <<NaN, Num(50), Num(51), NaN, Num(100)>>}}

MixedRows ==
    {Row(Num(40), GoodMail, "Female", FullAnswers),
     Row(NaN, NotStr, "Male", <<NaN, NaN, NaN, NaN, NaN>>),
     Row(Num(41), Str(<<"a", "@", ".", "a">>), "Male", <<Num(80), Num(90), NaN, Num(70), Num(60)>>),
     Row(Num(101), GoodMail, "Female", <<NaN, NaN, Num(70), Num(80), Num(90)>>)}

\* ------------------------------------------------------------------ specifications

InitWith(Files, Args) ==
    /\ file \in Files
    /\ arg \in Args
    /\ pc = "start"
    /\ data_fname = NoFname
    /\ data = None
    /\ reads = 0
    /\ op = "none"
    /\ in = NoArgs
    /\ err = "none"
    /\ ret = NoRet

Init == InitWith(Tables(MixedRows), {GoodMail, NotStr})

Next ==
    \/ Construct
    \/ ReadData
    \/ IsValidEmail
    \/ ShowAgeDistrib
    \/ RemoveRowsWithoutMail
    \/ FillNaWithMean
    \/ ScoreSubjects
    \/ CorrelateGenderAge

Spec == Init /\ [][Next]_vars

SpecEmail == InitWith(Tables({Row(Num(30), GoodMail, "Female", FullAnswers)}), [isstr : {TRUE}, chars : Strings] \cup {NotStr}) /\ [][Next]_vars
SpecAge == InitWith(Tables(AgeRows), {GoodMail}) /\ [][Next]_vars
SpecMail == InitWith(Tables(MailRows), {GoodMail}) /\ [][Next]_vars
SpecAnswers == InitWith(Tables(AnswerRows), {GoodMail}) /\ [][Next]_vars
SpecCorr == InitWith(Tables(CorrRows), {GoodMail}) /\ [][Next]_vars

\* ------------------------------------------------------------------ helpers of the properties

QSet == {"q1", "q2", "q3", "q4", "q5"}
AnalysisOps == {"show_age_distrib", "remove_rows_without_mail", "fill_na_with_mean",
                "score_subjects", "correlate_gender_age"}
Returned(name) == op = name /\ err = "none"

\* the present answers of a row: which, how many, and their sum (answers are whole numbers)
Present(row) == {c \in QSet : row[c][2] # 0}
Whole(row) == \A c \in Present(row) : row[c][2] = 1
RECURSIVE SumCells(_, _)
SumCells(row, cols) ==
    IF cols = {} THEN 0
    ELSE LET c == CHOOSE x \in cols : TRUE IN row[c][1] + SumCells(row, cols \ {c})
RECURSIVE SumSeq(_)
SumSeq(s) == IF s = <<>> THEN 0 ELSE Head(s) + SumSeq(Tail(s))
Range(s) == {s[i] : i \in 1..Len(s)}

\* ------------------------------------------------------------------ C1

\* the rule of the docstring, stated on the characters
EmailRule(v) ==
    /\ v.isstr
    /\ LET s == v.chars
           n == Len(v.chars)
       IN /\ Cardinality({i \in 1..n : s[i] = "@"}) = 1
          /\ s[1] # "@" /\ s[n] # "@"
          /\ \E i \in 1..n : s[i] = "."
          /\ s[1] # "." /\ s[n] # "."
          /\ \A i \in 1..(n - 1) : s[i] = "@" => s[i + 1] # "."

\* C1: is_valid_email returns True exactly for the strings with exactly one '@',
\* no leading or trailing '@', at least one '.', no leading or trailing '.', and
\* no '.' right after the '@'; every non-string gives False.
C1_IsValidEmail == Returned("is_valid_email") => (ret = EmailRule(in.email))

C1_Witness ==
    /\ Returned("is_valid_email")
    /\ ret = TRUE
    /\ in.email.isstr
    /\ \E i \in 1..Len(in.email.chars), j \in 1..Len(in.email.chars) :
         i < j /\ in.email.chars[i] = "." /\ in.email.chars[j] = "@"

\* ------------------------------------------------------------------ C2

\* C2: remove_rows_without_mail returns exactly the rows whose email is valid, in
\* their original order, under the row labels 0, 1, ..., k-1; it returns no more
\* rows than the table has.
C2_RemoveRows ==
    Returned("remove_rows_without_mail") =>
      /\ ret.rows = SelectSeq(data.rows, LAMBDA r : EmailRule(r.email))
      /\ Len(ret.rows) <= Len(data.rows)
      /\ \A i \in 1..Len(ret.rows) : is_valid_email(ret.rows[i].email)
      /\ Len(ret.index) = Len(ret.rows)
      /\ \A i \in 1..Len(ret.index) : ret.index[i] = i - 1
      /\ ret.columns = data.columns

C2_Witness ==
    /\ Returned("remove_rows_without_mail")
    /\ Len(data.rows) >= 2
    /\ ~EmailRule(data.rows[1].email)
    /\ EmailRule(data.rows[2].email)
    /\ ret.rows[1] = data.rows[2]

\* ------------------------------------------------------------------ C3, C9

\* C3: in the table fill_na_with_mean returns, a row whose index is returned has
\* every formerly missing answer replaced by the mean of its present answers and
\* every present answer unchanged (all five stay missing when all five were
\* missing); a row whose index is not returned is the original row.
C3_FillNa ==
    Returned("fill_na_with_mean") =>
      /\ ret.df.index = data.index
      /\ ret.df.columns = data.columns
      /\ Len(ret.df.rows) = Len(data.rows)
      /\ \A p \in 1..Len(data.rows) :
           LET old == data.rows[p]
               new == ret.df.rows[p]
               n == Cardinality(Present(old))
           IN IF (p - 1) \in Range(ret.rows_indices)
                THEN /\ DOMAIN new = DOMAIN old
                     /\ \A c \in (DOMAIN old) \ QSet : new[c] = old[c]
                     /\ Whole(old)
                     /\ n = 0 => \A c \in QSet : new[c][2] = 0
                     /\ n > 0 => \A c \in QSet :
                          /\ new[c][2] # 0
                          /\ c \in Present(old) => new[c] = old[c]
                          /\ c \notin Present(old) =>
                               new[c][1] * n = SumCells(old, Present(old)) * new[c][2]
                ELSE new = old

C3_Witness ==
    /\ Returned("fill_na_with_mean")
    /\ \E p \in 1..Len(data.rows) :
         /\ (p - 1) \in Range(ret.rows_indices)
         /\ Cardinality(Present(data.rows[p])) \in 1..4
         /\ \E c \in QSet \ Present(data.rows[p]) : ret.df.rows[p][c][2] > 1
    /\ \E p \in 1..Len(data.rows) :
         (p - 1) \in Range(ret.rows_indices) /\ Present(data.rows[p]) = {}

\* C9: the indices fill_na_with_mean returns are strictly ascending and are exactly
\* those of the rows with at least one missing answer.
C9_RowsIndices ==
    Returned("fill_na_with_mean") =>
      /\ \A i \in 1..(Len(ret.rows_indices) - 1) : ret.rows_indices[i] < ret.rows_indices[i + 1]
      /\ Range(ret.rows_indices) = {p - 1 : p \in {x \in 1..Len(data.rows) : Present(data.rows[x]) # QSet}}

C9_Witness ==
    /\ Returned("fill_na_with_mean")
    /\ Len(ret.rows_indices) >= 2
    /\ \E p \in 1..Len(data.rows) : Present(data.rows[p]) = {}
    /\ \E p \in 1..Len(data.rows) : Cardinality(Present(data.rows[p])) \in 1..4

\* ------------------------------------------------------------------ C4, C10

\* the score the claim gives a row under threshold t: NA when more than t answers
\* are missing (or none is present), else the floor of the mean of the present ones
ScoreIs(row, cell, t) ==
    LET n == Cardinality(Present(row))
        total == SumCells(row, Present(row))
    IN /\ Whole(row)
       /\ (5 - n > t \/ n = 0) => cell.mask
       /\ (5 - n <= t /\ n > 0) =>
            /\ ~cell.mask
            /\ cell.data \in 0..255
            /\ cell.data * n <= total
            /\ total < (cell.data + 1) * n

\* C4: score_subjects gives a row NA when its missing answers exceed the threshold
\* and otherwise the floor of the mean of its present answers, a value of 0..255;
\* called without a threshold it uses 1: two missing answers give NA, one missing
\* answer gives the floor of the mean of the other four.
C4_Score ==
    Returned("score_subjects") =>
      /\ Len(ret.rows) = Len(data.rows)
      /\ ret.index = data.index
      /\ \A p \in 1..Len(data.rows) :
           /\ \A c \in DOMAIN data.rows[p] : ret.rows[p][c] = data.rows[p][c]
           /\ ScoreIs(data.rows[p], ret.rows[p].score,
                      IF in.given THEN in.maximal_nans_per_sub ELSE 1)
           /\ (~in.given /\ Cardinality(Present(data.rows[p])) = 3) => ret.rows[p].score.mask
           /\ (~in.given /\ Cardinality(Present(data.rows[p])) = 4) => ~ret.rows[p].score.mask

C4_Witness ==
    /\ Returned("score_subjects")
    /\ ~in.given
    /\ \E p \in 1..Len(data.rows) :
         /\ Cardinality(Present(data.rows[p])) = 4
         /\ ret.rows[p].score = UInt8(1)
         /\ SumCells(data.rows[p], Present(data.rows[p])) = 7
    /\ \E p \in 1..Len(data.rows) :
         /\ Cardinality(Present(data.rows[p])) = 3
         /\ ret.rows[p].score.mask

\* C10: on a loaded table no analysis operation raises; score_subjects with a
\* threshold of 5 or more returns, and scores a row with no answer NA.
C10_NoError ==
    /\ (data # None /\ op \in AnalysisOps) => err = "none"
    /\ (data # None /\ op = "score_subjects" /\ in.given /\ in.maximal_nans_per_sub >= 5) =>
         /\ err = "none"
         /\ \A p \in 1..Len(data.rows) : Present(data.rows[p]) = {} => ret.rows[p].score.mask

C10_Witness ==
    /\ Returned("score_subjects")
    /\ in.given
    /\ in.maximal_nans_per_sub >= 5
    /\ \E p \in 1..Len(data.rows) :
         /\ Present(data.rows[p]) = {}
         /\ data.rows[p].age[2] = 0
         /\ ret.rows[p].score.mask

\* ------------------------------------------------------------------ C5

\* the rows (positions) the claim puts in the group (gender, flag)
Members(gender, flag) ==
    {p \in 1..Len(data.rows) :
       /\ data.rows[p].age[2] # 0
       /\ data.rows[p].gender = gender
       /\ (data.rows[p].age[1] > 40 * data.rows[p].age[2]) = flag}

RECURSIVE SumColumn(_, _)
SumColumn(ps, c) ==
    IF ps = {} THEN 0
    ELSE LET p == CHOOSE x \in ps : TRUE IN data.rows[p][c][1] + SumColumn(ps \ {p}, c)

\* C5: correlate_gender_age has one group for every (gender, age > 40) of a row
\* with an age and no other group; a row of age 40 is in a group of flag False, a
\* row without age is in none; a group's value in a column is the mean of the
\* column's present values over the group's rows.
C5_Correlate ==
    Returned("correlate_gender_age") =>
      /\ Range(ret.index) =
           {[gender |-> data.rows[p].gender, age |-> data.rows[p].age[1] > 40 * data.rows[p].age[2]] :
              p \in {x \in 1..Len(data.rows) : data.rows[x].age[2] # 0}}
      /\ Cardinality(Range(ret.index)) = Len(ret.index)
      /\ Len(ret.rows) = Len(ret.index)
      /\ \A p \in 1..Len(data.rows) :
           data.rows[p].age = Num(40) =>
             [gender |-> data.rows[p].gender, age |-> FALSE] \in Range(ret.index)
      /\ \A k \in 1..Len(ret.index) : \A c \in QSet :
           LET ps == {p \in Members(ret.index[k].gender, ret.index[k].age) :
                        data.rows[p][c][2] # 0}
               m == ret.rows[k][c]
           IN /\ \A p \in ps : data.rows[p][c][2] = 1
              /\ IF ps = {} THEN m[2] = 0
                 ELSE m[2] # 0 /\ m[1] * Cardinality(ps) = SumColumn(ps, c) * m[2]

C5_Witness ==
    /\ Returned("correlate_gender_age")
    /\ \E p, r \in 1..Len(data.rows) :
         /\ data.rows[p].age = Num(40)
         /\ data.rows[r].age = NaN
         /\ data.rows[r].gender = data.rows[p].gender
         /\ data.rows[r].q2 # data.rows[p].q2
         /\ Len(ret.index) = 1
         /\ ret.index[1].age = FALSE
         /\ ret.rows[1].q2 = data.rows[p].q2

\* ------------------------------------------------------------------ C6

\* C6: whatever analysis operations are called, the stored table stays the table
\* as read from the file: same rows, same order, same columns.
C6_DataUnchanged == data # None => data = read_json(file)

C6_Witness ==
    /\ Returned("score_subjects")
    /\ data # None
    /\ ret # data
    /\ ret.columns # data.columns
    /\ \E p \in 1..Len(data.rows) : Present(data.rows[p]) # QSet

\* ------------------------------------------------------------------ C7

InRange(age) == age[2] # 0 /\ 0 <= age[1] /\ age[1] <= 100 * age[2]

\* C7 as stated: the edges are 0, 10, ..., 100 and the 10 counts sum to the number
\* of rows with an age.
C7_Original ==
    Returned("show_age_distrib") =>
      /\ ret.edges = <<0, 10, 20, 30, 40, 50, 60, 70, 80, 90, 100>>
      /\ Len(ret.hist) = 10
      /\ SumSeq(ret.hist) = Cardinality({p \in 1..Len(data.rows) : data.rows[p].age[2] # 0})

\* C7 as amended: the edges are 0, 10, ..., 100 and the 10 counts sum to the number
\* of rows whose age is present and within 0..100 (both ends included).
C7_Amended ==
    Returned("show_age_distrib") =>
      /\ ret.edges = <<0, 10, 20, 30, 40, 50, 60, 70, 80, 90, 100>>
      /\ Len(ret.hist) = 10
      /\ SumSeq(ret.hist) = Cardinality({p \in 1..Len(data.rows) : InRange(data.rows[p].age)})

C7_Witness ==
    /\ Returned("show_age_distrib")
    /\ \E p \in 1..Len(data.rows) : data.rows[p].age = Num(100)
    /\ \E p \in 1..Len(data.rows) : data.rows[p].age = Num(101)
    /\ SumSeq(ret.hist) = 1
    /\ ret.hist[10] = 1

\* ------------------------------------------------------------------ C8

\* C8: __init__ raises TypeError for an argument that is neither str nor Path and
\* ValueError ("File ... does not exist.") for a path that does not exist; then no
\* analyzer exists and the file has not been read. Otherwise it stores the path,
\* and the table stays unloaded until read_data.
C8_Construct ==
    /\ (op = "__init__" /\ in.type \notin {"str", "Path"}) =>
         err = "TypeError" /\ pc = "failed"
    /\ (op = "__init__" /\ in.type \in {"str", "Path"} /\ ~in.exists) =>
         err = "ValueError" /\ pc = "failed"
    /\ (op = "__init__" /\ in.type \in {"str", "Path"} /\ in.exists) =>
         err = "none" /\ pc = "ready" /\ data_fname = [kind |-> "Path", exists |-> TRUE]
    /\ pc = "failed" => reads = 0 /\ data_fname = NoFname /\ data = None
    /\ (pc = "ready" /\ reads = 0) => data = None
    /\ (pc = "ready" /\ reads > 0) => data # None

C8_Witness ==
    /\ op = "__init__"
    /\ in.type = "str"
    /\ ~in.exists
    /\ err = "ValueError"
    /\ pc = "failed"

====
